---- MODULE Spec2Model ----
(***************************************************************************)
(* Model of iMatic/devices.py: the EthernetRelay controller of a SainSmart *)
(* 8/16 channel relay board.  The controller is a single-threaded object;  *)
(* every public operation is a sequence of blocking socket calls, each of  *)
(* which is one step here.  The board on the other end of the socket is    *)
(* the environment: it may answer faithfully, drop a command, answer with  *)
(* a malformed frame, or be switched by another client.                    *)
(***************************************************************************)
EXTENDS Integers, Sequences, FiniteSets, TLC

(* ---------------- bounds of the model ---------------- *)

\* Number of environment faults (lost command, malformed reply, socket error,
\* relay switched by another client) in one behaviour.
MaxFaults == 1

(* ---------------- module constants (devices.py:6-9) ---------------- *)

CHANNEL_8 == FALSE

CHANNEL_16 == TRUE

CHANNEL_8_COMMANDS ==
  <<
     <<"F","D","0","2","2","0","0","1","0","1","5","D">>,
     <<"F","D","0","2","2","0","0","1","0","0","5","D">>,
     <<"F","D","0","2","2","0","0","2","0","1","5","D">>,
     <<"F","D","0","2","2","0","0","2","0","0","5","D">>,
     <<"F","D","0","2","2","0","0","3","0","1","5","D">>,
     <<"F","D","0","2","2","0","0","3","0","0","5","D">>,
     <<"F","D","0","2","2","0","0","4","0","1","5","D">>,
     <<"F","D","0","2","2","0","0","4","0","0","5","D">>,
     <<"F","D","0","2","2","0","0","5","0","1","5","D">>,
     <<"F","D","0","2","2","0","0","5","0","0","5","D">>,
     <<"F","D","0","2","2","0","0","6","0","1","5","D">>,
     <<"F","D","0","2","2","0","0","6","0","0","5","D">>,
     <<"F","D","0","2","2","0","0","7","0","1","5","D">>,
     <<"F","D","0","2","2","0","0","7","0","0","5","D">>,
     <<"F","D","0","2","2","0","0","8","0","1","5","D">>,
     <<"F","D","0","2","2","0","0","8","0","0","5","D">>,
     <<"F","D","0","2","2","0","F","8","8","8","5","D">>,
     <<"F","D","0","2","2","0","F","8","8","0","5","D">>
  >>

CHANNEL_16_COMMANDS ==
  <<
     <<"5","8","0","1","1","2","0","0","0","0","0","0","0","1","6","C">>,
     <<"5","8","0","1","1","1","0","0","0","0","0","0","0","1","6","B">>,
     <<"5","8","0","1","1","2","0","0","0","0","0","0","0","2","6","D">>,
     <<"5","8","0","1","1","1","0","0","0","0","0","0","0","2","6","C">>,
     <<"5","8","0","1","1","2","0","0","0","0","0","0","0","3","6","E">>,
     <<"5","8","0","1","1","1","0","0","0","0","0","0","0","3","6","D">>,
     <<"5","8","0","1","1","2","0","0","0","0","0","0","0","4","6","F">>,
     <<"5","8","0","1","1","1","0","0","0","0","0","0","0","4","6","E">>,
     <<"5","8","0","1","1","2","0","0","0","0","0","0","0","5","7","0">>,
     <<"5","8","0","1","1","1","0","0","0","0","0","0","0","5","6","F">>,
     <<"5","8","0","1","1","2","0","0","0","0","0","0","0","6","7","1">>,
     <<"5","8","0","1","1","1","0","0","0","0","0","0","0","6","7","0">>,
     <<"5","8","0","1","1","2","0","0","0","0","0","0","0","7","7","2">>,
     <<"5","8","0","1","1","1","0","0","0","0","0","0","0","7","7","1">>,
     <<"5","8","0","1","1","2","0","0","0","0","0","0","0","8","7","3">>,
     <<"5","8","0","1","1","1","0","0","0","0","0","0","0","8","7","2">>,
     <<"5","8","0","1","1","2","0","0","0","0","0","0","0","9","7","4">>,
     <<"5","8","0","1","1","1","0","0","0","0","0","0","0","9","7","3">>,
     <<"5","8","0","1","1","2","0","0","0","0","0","0","0","A","7","5">>,
     <<"5","8","0","1","1","1","0","0","0","0","0","0","0","A","7","4">>,
     <<"5","8","0","1","1","2","0","0","0","0","0","0","0","B","7","6">>,
     <<"5","8","0","1","1","1","0","0","0","0","0","0","0","B","7","5">>,
     <<"5","8","0","1","1","2","0","0","0","0","0","0","0","C","7","7">>,
     <<"5","8","0","1","1","1","0","0","0","0","0","0","0","C","7","6">>,
     <<"5","8","0","1","1","2","0","0","0","0","0","0","0","D","7","8">>,
     <<"5","8","0","1","1","1","0","0","0","0","0","0","0","D","7","7">>,
     <<"5","8","0","1","1","2","0","0","0","0","0","0","0","E","7","9">>,
     <<"5","8","0","1","1","1","0","0","0","0","0","0","0","E","7","8">>,
     <<"5","8","0","1","1","2","0","0","0","0","0","0","0","F","7","A">>,
     <<"5","8","0","1","1","1","0","0","0","0","0","0","0","F","7","9">>,
     <<"5","8","0","1","1","2","0","0","0","0","0","0","1","0","7","B">>,
     <<"5","8","0","1","1","1","0","0","0","0","0","0","1","0","7","A">>,
     <<"5","8","0","1","1","3","0","0","0","0","F","F","F","F","7","7">>,
     <<"5","8","0","1","1","3","0","0","0","0","0","0","0","0","7","B">>,
     <<"5","8","0","1","1","0","0","0","0","0","0","0","0","0","6","9">>
  >>

\* binascii.a2b_hex on one hexadecimal digit.
HexVal(c) ==
  CASE c = "0" -> 0  [] c = "1" -> 1  [] c = "2" -> 2  [] c = "3" -> 3
    [] c = "4" -> 4  [] c = "5" -> 5  [] c = "6" -> 6  [] c = "7" -> 7
    [] c = "8" -> 8  [] c = "9" -> 9  [] c = "A" -> 10 [] c = "B" -> 11
    [] c = "C" -> 12 [] c = "D" -> 13 [] c = "E" -> 14 [] c = "F" -> 15

\* binascii.a2b_hex(cmd): two hexadecimal digits per byte, high digit first.
a2b_hex(cmd) ==
  [k \in 1..(Len(cmd) \div 2) |-> 16 * HexVal(cmd[2*k - 1]) + HexVal(cmd[2*k])]

\* "{:08b}".format(b): eight characters, most significant bit first.
Format08b(b) ==
  [k \in 1..8 |-> IF (b \div (2^(8 - k))) % 2 = 1 THEN "1" ELSE "0"]

\* s[::-1]
Reversed(s) == [k \in 1..Len(s) |-> s[Len(s) + 1 - k]]

\* [v] * n
Repeat(v, n) == [k \in 1..n |-> v]

\* __init__, line 34: the number of relays of a board type.
ChannelCount(bt) == IF bt = CHANNEL_8 THEN 8 ELSE 16

\* __init__, line 35: the command table of a board type.
CommandsFor(bt) == IF bt = CHANNEL_8 THEN CHANNEL_8_COMMANDS ELSE CHANNEL_16_COMMANDS

\* Mutant of StateBitsStr: the final [::-1] of line 157 is forgotten.
StateBitsStrNoReverse(rsp) ==
  LET s0 == <<>>
      s1 == IF Len(rsp) > 2 THEN Format08b(rsp[Len(rsp) - 1]) \o s0 ELSE s0
      s2 == IF Len(rsp) > 4 THEN Format08b(rsp[Len(rsp) - 2]) \o s1 ELSE s1
  IN  s2

\* Mutant of StateBitsStr: the third-to-last byte is read whenever there is
\* one (`> 2` for `> 4` in line 155).
StateBitsStrThirdIfPresent(rsp) ==
  LET s0 == <<>>
      s1 == IF Len(rsp) > 2 THEN Format08b(rsp[Len(rsp) - 1]) \o s0 ELSE s0
      s2 == IF Len(rsp) > 2 THEN Format08b(rsp[Len(rsp) - 2]) \o s1 ELSE s1
  IN  Reversed(s2)

\* control(), lines 152-157: the bit string decoded from the last response.
\* Python index len-2 is sequence index len-1, len-3 is len-2.
StateBitsStr(rsp) ==
  LET s0 == <<>>
      s1 == IF Len(rsp) > 2 THEN Format08b(rsp[Len(rsp) - 1]) \o s0 ELSE s0
      s2 == IF Len(rsp) > 4 THEN Format08b(rsp[Len(rsp) - 2]) \o s1 ELSE s1
  IN  Reversed(s2)

\* control(), lines 159-160: the loop assigns relays[ri] for ri = 0, 1, ... and
\* stops with IndexError at the first ri that is not an index of the bit string;
\* the assignments made before that stay.
UpdateRelays(rel, bits) ==
  [k \in 1..Len(rel) |-> IF k <= Len(bits) THEN bits[k] = "1" ELSE rel[k]]

\* Mutant of DecodeRaises: the loop stops at the end of the bit string, and
\* raises only when there is no bit at all.
DecodeRaisesOnlyEmpty(rel, bits) == Len(bits) = 0

\* control(), lines 159-160: whether the loop raises IndexError.
DecodeRaises(rel, bits) == Len(bits) < Len(rel)

\* Mutant of IndexInvalid: `>` for `>=` in line 52.
IndexInvalidOffByOne(rel, relay_index) ==
  IF relay_index < 0 THEN TRUE
  ELSE IF relay_index > Len(rel) THEN TRUE
  ELSE FALSE

\* check_index(), lines 50-54: whether IndexError is raised.
IndexInvalid(rel, relay_index) ==
  IF relay_index < 0 THEN TRUE
  ELSE IF relay_index >= Len(rel) THEN TRUE
  ELSE FALSE

\* state(), line 63: the last entry of the command table.
StateCmd(cmds) == cmds[(Len(cmds) - 1) + 1]

\* Mutant of OnCmd: the off command of the pair is taken.
OnCmdWrongSlot(cmds, relay_index) == cmds[(relay_index * 2 + 1) + 1]

\* turn_on(), line 105: commands[relay_index*2+0] (Python index).
OnCmd(cmds, relay_index) == cmds[(relay_index * 2 + 0) + 1]

\* turn_off(), line 118: commands[relay_index*2+1] (Python index).
OffCmd(cmds, relay_index) == cmds[(relay_index * 2 + 1) + 1]

\* Mutant of AllOnCmds: the loop stops one relay early.
AllOnCmdsSkipLast(cmds, rel) ==
  [ri1 \in 1..(Len(rel) - 1) |-> cmds[((ri1 - 1) * 2 + 0) + 1]]

\* all_on(), lines 125-127.
AllOnCmds(cmds, rel) == [ri1 \in 1..Len(rel) |-> cmds[((ri1 - 1) * 2 + 0) + 1]]

\* Mutant of AllOffCmds: the batch is built from the last relay down.
AllOffCmdsReversed(cmds, rel) ==
  [ri1 \in 1..Len(rel) |-> cmds[((Len(rel) - ri1) * 2 + 1) + 1]]

\* all_off(), lines 135-137.
AllOffCmds(cmds, rel) == [ri1 \in 1..Len(rel) |-> cmds[((ri1 - 1) * 2 + 1) + 1]]

\* verify(), lines 76-80: the Python index of the first pair of zip(a, b) that
\* differs, or -1 when the loop ends without raising.
MinLen(a, b) == IF Len(a) < Len(b) THEN Len(a) ELSE Len(b)

FirstMismatch(a, b) ==
  LET D == {k \in 1..MinLen(a, b) : a[k] # b[k]}
  IN  IF D = {} THEN -1 ELSE (CHOOSE k \in D : \A m \in D : k <= m) - 1

(* ---------------- the relay board (the peer of the socket) ---------------- *)

\* The byte whose bit i (least significant first) is relay base+i of the board.
RelayByte(d, base) ==
  LET bit(i) == IF base + i + 1 <= Len(d) /\ d[base + i + 1] THEN 2^i ELSE 0
  IN  bit(0) + bit(1) + bit(2) + bit(3) + bit(4) + bit(5) + bit(6) + bit(7)

\* The Python index in the command table of a frame received by the board, or
\* -1 for a frame that is no command.
CommandIndex(bt, frame) ==
  LET cmds == CommandsFor(bt)
      K == {k \in 1..Len(cmds) : a2b_hex(cmds[k]) = frame}
  IN  IF K = {} THEN -1 ELSE (CHOOSE k \in K : TRUE) - 1

\* The board executing a frame: entry 2*i switches relay i on, entry 2*i+1
\* switches it off, the trailing entries switch nothing.
DeviceApply(bt, d, frame) ==
  LET k == CommandIndex(bt, frame)
  IN  IF k >= 0 /\ k < 2 * ChannelCount(bt)
      THEN [d EXCEPT ![(k \div 2) + 1] = (k % 2 = 0)]
      ELSE d

\* The acknowledgements of a board that reports its relays: the second-to-last
\* byte carries relays 0..7, the third-to-last byte relays 8..15.
DeviceReplies(bt, d) ==
  IF bt = CHANNEL_8
  THEN { <<253, RelayByte(d, 0), 93>>,
         <<253, 2, 32, 0, RelayByte(d, 0), 93>> }
  ELSE { <<88, 1, 0, 0, 0, RelayByte(d, 8), RelayByte(d, 0),
           (89 + RelayByte(d, 8) + RelayByte(d, 0)) % 256>> }

\* Replies of a board (or a network) that does not keep to the protocol:
\* sock.recv(8) returns between 0 and 8 bytes, whatever they are.
MalformedReplies ==
  { <<>>,
    <<1, 0>>,
    <<0, 0, 1>>, <<0, 255, 0>>, <<255, 1, 128>>, <<1, 128, 255>>,
    <<0, 255, 0, 93>>,
    <<0, 0, 128, 1, 0>>,
    <<88, 1, 0, 0, 0, 255, 0, 88>> }

\* States of the board when the controller is constructed.
InitialDeviceStates(bt) ==
  LET n == ChannelCount(bt)
  IN  { Repeat(FALSE, n),
        [k \in 1..n |-> k % 3 = 1] }

(* ---------------- state ---------------- *)

VARIABLES
  board_type,   \* __init__ argument: CHANNEL_8 or CHANNEL_16
  relays,       \* self._relays, relays[ri + 1] is Python's self._relays[ri]
  op,           \* the public operation called last
  arg,          \* its relay_index (0 for operations without one)
  mut,          \* the assignment after the command exchange: on, off, all_on, all_off, none
  phase,        \* which control() call of the operation: cmd or query
  pc,           \* position: idle, connect, send, recv, close, failed
  cmdList,      \* control(): its argument
  ci,           \* control(): sequence index of the command the for loop is at
  resp,         \* control(): the local resp
  sock,         \* control(): TRUE while its socket is open
  result,       \* how the operation ended: running, ok, IndexError, ValueError, OSError
  errinfo,      \* the (index, j) of verify()'s ValueError
  dev,          \* the relays of the board
  open_socks,   \* connections opened by the controller and not closed
  faults,       \* environment faults so far
  exchanges,    \* connections opened by the operation
  sent,         \* frames sent by the operation, in order
  sent_on,      \* for each of them, the connection of the operation it went over
  recvs,        \* sock.recv calls of the operation that returned
  dropped_short, \* a response of fewer than 3 bytes was overwritten by the next recv
  last_resp,    \* what the last recv of the running control() call returned
  pre,          \* self._relays when the operation was called
  devpre,       \* the relays of the board when the operation was called
  cpre,         \* self._relays when the control() call was entered
  intended,     \* self._relays when verify() was entered
  clean,        \* no fault and no other client since the operation was called
  prev          \* the operation before this one, when this one repeats or reads
                \* back one that returned with no fault since it was called

vars == <<board_type, relays, op, arg, mut, phase, pc, cmdList, ci, resp, sock,
          result, errinfo, dev, open_socks, faults, exchanges, sent, sent_on,
          recvs, dropped_short, last_resp, pre, devpre, cpre, intended, clean,
          prev>>

\* self._commands (line 35): fixed by the board type at construction.
commands == CommandsFor(board_type)

\* prev when the operation before is none of those or did not end that way.
NoPrev == [op |-> "none", arg |-> 0, pre |-> <<>>, devpre |-> <<>>,
           post |-> <<>>, devpost |-> <<>>]

\* __init__, lines 31-37: the fields are set and state() is called.
Init ==
  /\ board_type \in {CHANNEL_8, CHANNEL_16}
  /\ relays = Repeat(FALSE, ChannelCount(board_type))
  /\ dev \in InitialDeviceStates(board_type)
  /\ op = "__init__" /\ arg = 0 /\ mut = "none" /\ phase = "query"
  /\ pc = "connect"
  /\ cmdList = <<StateCmd(commands)>>
  /\ ci = 0 /\ resp = <<>> /\ sock = FALSE
  /\ result = "running" /\ errinfo = <<>>
  /\ open_socks = 0 /\ faults = 0 /\ exchanges = 0 /\ sent = <<>>
  /\ sent_on = <<>> /\ recvs = 0 /\ dropped_short = FALSE /\ last_resp = <<>>
  /\ pre = relays /\ devpre = dev /\ cpre = relays /\ intended = <<>>
  /\ clean = TRUE
  /\ prev = NoPrev

\* Relay indices the caller passes: both boundaries, inside and outside.
TestIndices ==
  {-1, 0, ChannelCount(board_type) - 1, ChannelCount(board_type)}

(* ---------------- how an operation starts and ends ---------------- *)

\* The claims about two operations in a row are about these pairs.
Follows(o1, i1, o2, i2) ==
  \/ o1 = "turn_on" /\ o2 = "state"
  \/ o1 = "toggle" /\ o2 = "toggle" /\ i1 = i2
  \/ o1 = "all_on" /\ o2 = "all_on"
  \/ o1 = "all_off" /\ o2 = "all_off"

\* What every call of a public operation records.
Called(o, i) ==
  /\ pc = "idle"
  /\ op' = o /\ arg' = i
  /\ prev' = IF result = "ok" /\ clean /\ Follows(op, arg, o, i)
             THEN [op |-> op, arg |-> arg, pre |-> pre, devpre |-> devpre,
                   post |-> relays, devpost |-> dev]
             ELSE NoPrev
  /\ pre' = relays /\ devpre' = dev
  /\ clean' = TRUE
  /\ exchanges' = 0 /\ sent' = <<>> /\ errinfo' = <<>>
  /\ sent_on' = <<>> /\ recvs' = 0 /\ dropped_short' = FALSE /\ last_resp' = <<>>
  /\ UNCHANGED <<board_type, relays, dev, open_socks, faults>>

\* Mutant of Raised: __init__ swallows the exception of state().
RaisedSwallowed(kind) ==
  /\ result' = kind
  /\ pc' = "idle"

\* An exception leaves the running operation; out of __init__ it leaves no
\* object.
Raised(kind) ==
  /\ result' = kind
  /\ pc' = IF op = "__init__" THEN "failed" ELSE "idle"

\* The operation ends without a control() call.
NoControl ==
  /\ pc' = "idle"
  /\ mut' = "none" /\ phase' = "none" /\ cmdList' = <<>> /\ ci' = 0
  /\ resp' = <<>> /\ sock' = FALSE /\ cpre' = relays /\ intended' = <<>>

\* The call self.control(cmds) out of the operation just called (line 144:
\* resp = []).
EnterControl(m, cmds, ph) ==
  /\ result' = "running"
  /\ mut' = m /\ cmdList' = cmds /\ phase' = ph /\ pc' = "connect"
  /\ ci' = 0 /\ sock' = FALSE /\ resp' = <<>> /\ cpre' = relays

(* ---------------- public operations: the call ---------------- *)

\* check_index(relay_index), lines 39-54, called by the user.
CheckIndex(i) ==
  /\ Called("check_index", i)
  /\ result' = IF IndexInvalid(relays, i) THEN "IndexError" ELSE "ok"
  /\ NoControl

\* state(), lines 63-64.
State ==
  /\ Called("state", 0)
  /\ EnterControl("none", <<StateCmd(commands)>>, "query")
  /\ intended' = <<>>

\* verify(), line 75.
Verify ==
  /\ Called("verify", 0)
  /\ EnterControl("none", <<StateCmd(commands)>>, "query")
  /\ intended' = relays

\* Mutant of TurnOnBody: check_index only looks for a negative index.
TurnOnBodyNoUpperCheck(i) ==
  IF i < 0
  THEN result' = "IndexError" /\ NoControl
  ELSE EnterControl("on", <<OnCmd(commands, i)>>, "cmd") /\ intended' = <<>>

\* turn_on(relay_index), lines 104-105.
TurnOnBody(i) ==
  IF IndexInvalid(relays, i)
  THEN result' = "IndexError" /\ NoControl
  ELSE EnterControl("on", <<OnCmd(commands, i)>>, "cmd") /\ intended' = <<>>

\* turn_off(relay_index), lines 117-118.
TurnOffBody(i) ==
  IF IndexInvalid(relays, i)
  THEN result' = "IndexError" /\ NoControl
  ELSE EnterControl("off", <<OffCmd(commands, i)>>, "cmd") /\ intended' = <<>>

TurnOn(i) ==
  /\ Called("turn_on", i)
  /\ TurnOnBody(i)

TurnOff(i) ==
  /\ Called("turn_off", i)
  /\ TurnOffBody(i)

\* Mutant of Toggle: the relay is switched on whatever its state.
ToggleAlwaysOn(i) ==
  /\ Called("toggle", i)
  /\ IF IndexInvalid(relays, i)
     THEN result' = "IndexError" /\ NoControl
     ELSE TurnOnBody(i)

\* toggle(relay_index), lines 90-94.
Toggle(i) ==
  /\ Called("toggle", i)
  /\ IF IndexInvalid(relays, i)
     THEN result' = "IndexError" /\ NoControl
     ELSE IF relays[i + 1] THEN TurnOffBody(i) ELSE TurnOnBody(i)

\* all_on(), lines 125-128.
AllOn ==
  /\ Called("all_on", 0)
  /\ EnterControl("all_on", AllOnCmds(commands, relays), "cmd")
  /\ intended' = <<>>

\* all_off(), lines 135-138.
AllOff ==
  /\ Called("all_off", 0)
  /\ EnterControl("all_off", AllOffCmds(commands, relays), "cmd")
  /\ intended' = <<>>

(* ---------------- control(), lines 142-160, one socket call per step ------ *)

\* What a step inside an operation leaves alone.
SameCall == UNCHANGED <<board_type, op, arg, mut, pre, devpre, prev, cpre, intended, errinfo>>

\* The environment misbehaves once more.
Fault == /\ faults < MaxFaults
         /\ faults' = faults + 1
         /\ clean' = FALSE

\* The commands of a batch at which a fault is tried: the first and the last.
FaultPoint == ci \in {1, Len(cmdList)}

NoFault == UNCHANGED <<faults, clean>>

\* line 146: socket.create_connection succeeds, the for loop starts.
Connect ==
  /\ pc = "connect"
  /\ sock' = TRUE /\ open_socks' = open_socks + 1
  /\ exchanges' = exchanges + 1
  /\ ci' = 1
  /\ pc' = IF Len(cmdList) >= 1 THEN "send" ELSE "close"
  /\ NoFault /\ SameCall
  /\ UNCHANGED <<relays, phase, cmdList, resp, result, dev, sent, sent_on,
                 recvs, dropped_short, last_resp>>

\* line 146: socket.create_connection raises (refused, unreachable, timeout).
ConnectFail ==
  /\ pc = "connect"
  /\ Fault
  /\ Raised("OSError")
  /\ SameCall
  /\ UNCHANGED <<relays, phase, cmdList, ci, resp, sock, dev, open_socks,
                 exchanges, sent, sent_on, recvs, dropped_short, last_resp>>

\* line 148: sock.send(binascii.a2b_hex(cmd)); the board executes the frame,
\* or (lost = TRUE) the frame has no effect on the board.
Send(lost) ==
  /\ pc = "send"
  /\ LET frame == a2b_hex(cmdList[ci])
     IN  /\ sent' = Append(sent, frame)
         /\ sent_on' = Append(sent_on, exchanges)
         /\ dev' = IF lost THEN dev ELSE DeviceApply(board_type, dev, frame)
  /\ IF lost THEN FaultPoint /\ Fault ELSE NoFault
  /\ pc' = "recv"
  /\ SameCall
  /\ UNCHANGED <<relays, phase, cmdList, ci, resp, sock, result, open_socks,
                 exchanges, recvs, dropped_short, last_resp>>

\* line 148: sock.send raises; line 150 is not reached.
SendFail ==
  /\ pc = "send"
  /\ FaultPoint /\ Fault
  /\ Raised("OSError")
  /\ sock' = FALSE
  /\ SameCall
  /\ UNCHANGED <<relays, phase, cmdList, ci, resp, dev, open_socks,
                 exchanges, sent, sent_on, recvs, dropped_short, last_resp>>

\* Mutant of Received: recv is called again until 8 bytes have come in one
\* piece.
ReceivedWaitsForEight(reply) ==
  /\ resp' = reply
  /\ recvs' = IF Len(reply) >= 8 THEN recvs + 1 ELSE recvs
  /\ dropped_short' = dropped_short
  /\ last_resp' = IF Len(reply) >= 8 THEN reply ELSE last_resp
  /\ ci' = IF Len(reply) >= 8 THEN ci + 1 ELSE ci
  /\ pc' = IF Len(reply) < 8 THEN "recv"
           ELSE IF ci + 1 <= Len(cmdList) THEN "send" ELSE "close"
  /\ SameCall
  /\ UNCHANGED <<relays, phase, cmdList, sock, result, dev, open_socks,
                 exchanges, sent, sent_on>>

\* Mutant of Received: resp keeps the response to the first command of the
\* batch.
ReceivedKeepsFirst(reply) ==
  /\ resp' = IF ci = 1 THEN reply ELSE resp
  /\ recvs' = recvs + 1
  /\ dropped_short' = (dropped_short \/ (ci > 1 /\ Len(resp) < 3))
  /\ last_resp' = reply
  /\ ci' = ci + 1
  /\ pc' = IF ci + 1 <= Len(cmdList) THEN "send" ELSE "close"
  /\ SameCall
  /\ UNCHANGED <<relays, phase, cmdList, sock, result, dev, open_socks,
                 exchanges, sent, sent_on>>

\* line 149: resp = sock.recv(8), then the next command or the end of the loop.
Received(reply) ==
  /\ resp' = reply
  /\ recvs' = recvs + 1
  /\ dropped_short' = (dropped_short \/ (ci > 1 /\ Len(resp) < 3))
  /\ last_resp' = reply
  /\ ci' = ci + 1
  /\ pc' = IF ci + 1 <= Len(cmdList) THEN "send" ELSE "close"
  /\ SameCall
  /\ UNCHANGED <<relays, phase, cmdList, sock, result, dev, open_socks,
                 exchanges, sent, sent_on>>

Recv ==
  /\ pc = "recv"
  /\ \E reply \in DeviceReplies(board_type, dev) : Received(reply)
  /\ NoFault

RecvMalformed ==
  /\ pc = "recv"
  /\ \E reply \in MalformedReplies : Received(reply)
  /\ FaultPoint /\ Fault

\* line 149: sock.recv raises (timeout, reset); line 150 is not reached.
RecvFail ==
  /\ pc = "recv"
  /\ FaultPoint /\ Fault
  /\ Raised("OSError")
  /\ sock' = FALSE
  /\ SameCall
  /\ UNCHANGED <<relays, phase, cmdList, ci, resp, dev, open_socks,
                 exchanges, sent, sent_on, recvs, dropped_short, last_resp>>

\* turn_on 106, turn_off 119, all_on 129, all_off 139: the local assignment.
LocalAssign(m, rel, i) ==
  CASE m = "on" -> [rel EXCEPT ![i + 1] = TRUE]
    [] m = "off" -> [rel EXCEPT ![i + 1] = FALSE]
    [] m = "all_on" -> [k \in 1..Len(rel) |-> TRUE]
    [] m = "all_off" -> [k \in 1..Len(rel) |-> FALSE]
    [] OTHER -> rel

\* state(), line 65: `return self._relays` returns the list object itself, the
\* one control() has just written into (rel), so verify()'s local `state`
\* (line 75) and self._relays are the same list.
StateReturned(rel) == rel

\* lines 159-160 raise: the assignments made stay, the exception leaves the
\* operation.
DecodeFailed(decoded) ==
  /\ relays' = decoded
  /\ Raised("IndexError")
  /\ UNCHANGED <<phase, cmdList, ci, resp, last_resp, cpre, intended, errinfo>>

\* Mutant of Write: the operation returns after the local assignment, verify()
\* is not called.
WriteNoVerify(decoded) ==
  /\ relays' = LocalAssign(mut, decoded, arg)
  /\ intended' = relays'
  /\ cpre' = relays'
  /\ result' = "ok" /\ pc' = "idle"
  /\ UNCHANGED <<phase, cmdList, ci, resp, last_resp, errinfo>>

\* The command exchange has returned: the local assignment, then verify()
\* (lines 107, 120, 130, 140), which calls state() (line 75), which calls
\* control([state_cmd]) (line 64; line 144: resp = []).
Write(decoded) ==
  /\ relays' = LocalAssign(mut, decoded, arg)
  /\ intended' = relays'
  /\ cpre' = relays'
  /\ cmdList' = <<StateCmd(commands)>> /\ phase' = "query" /\ pc' = "connect"
  /\ ci' = 0 /\ resp' = <<>> /\ last_resp' = <<>>
  /\ UNCHANGED <<result, errinfo>>

\* state(), line 65, called by the user or by __init__ (line 37).
Return(decoded) ==
  /\ relays' = decoded
  /\ result' = "ok" /\ pc' = "idle"
  /\ UNCHANGED <<phase, cmdList, ci, resp, last_resp, cpre, intended, errinfo>>

\* Mutant of Compare: verify() puts back the vector held when it was entered.
CompareKeepsHeld(decoded) ==
  /\ relays' = intended
  /\ result' = "ok" /\ pc' = "idle"
  /\ UNCHANGED <<phase, cmdList, ci, resp, last_resp, cpre, intended, errinfo>>

\* verify(), lines 75-80, after its state() call has returned.
Compare(decoded) ==
  /\ relays' = decoded
  /\ LET state == StateReturned(decoded)
         index == FirstMismatch(decoded, state)
     IN  IF index # -1
         THEN /\ Raised("ValueError")
              /\ errinfo' = <<index, state[index + 1]>>
         ELSE /\ result' = "ok" /\ pc' = "idle"
              /\ UNCHANGED errinfo
  /\ UNCHANGED <<phase, cmdList, ci, resp, last_resp, cpre, intended>>

\* line 150: sock.close(); lines 152-160: the last response is decoded into
\* self._relays; then control() returns to the operation that called it.
CloseAndParse ==
  /\ pc = "close"
  /\ sock' = FALSE /\ open_socks' = open_socks - 1
  /\ LET state_bits_str == StateBitsStr(resp)
         decoded == UpdateRelays(relays, state_bits_str)
     IN  IF DecodeRaises(relays, state_bits_str) THEN DecodeFailed(decoded)
         ELSE IF phase = "cmd" THEN Write(decoded)
         ELSE IF op \in {"__init__", "state"} THEN Return(decoded)
         ELSE Compare(decoded)
  /\ NoFault
  /\ UNCHANGED <<board_type, op, arg, mut, pre, devpre, prev, dev, exchanges,
                 sent, sent_on, recvs, dropped_short>>

(* ---------------- the environment ---------------- *)

\* Another client (or a person at the board) switches relay j.
ExternalSwitch(j) ==
  /\ pc # "failed"
  /\ j >= 0 /\ j < Len(dev)
  /\ Fault
  /\ dev' = [dev EXCEPT ![j + 1] = ~dev[j + 1]]
  /\ SameCall
  /\ UNCHANGED <<relays, phase, pc, cmdList, ci, resp, sock, result,
                 open_socks, exchanges, sent, sent_on, recvs, dropped_short,
                 last_resp>>

(* ---------------- specification ---------------- *)

Next ==
  \/ \E i \in TestIndices : CheckIndex(i)
  \/ State
  \/ Verify
  \/ \E i \in TestIndices : Toggle(i)
  \/ \E i \in TestIndices : TurnOn(i)
  \/ \E i \in TestIndices : TurnOff(i)
  \/ AllOn
  \/ AllOff
  \/ Connect
  \/ ConnectFail
  \/ \E lost \in BOOLEAN : Send(lost)
  \/ SendFail
  \/ Recv
  \/ RecvMalformed
  \/ RecvFail
  \/ CloseAndParse
  \/ \E j \in TestIndices : ExternalSwitch(j)

Spec == Init /\ [][Next]_vars

\* The positions inside control(): each is a socket call (lines 146, 148, 149,
\* 150) with the straight-line code that follows it.
ControlPositions == {"connect", "send", "recv", "close"}

\* line 148 is left: sock.send has returned or raised.  Send has no guard but
\* its position, and the steps of Next that leave the position are its steps.
SendReturns ==
  /\ pc = "send"
  /\ pc' \in {"recv", "idle", "failed"}

\* lines 150-160 are left: straight-line code after the last recv, which
\* returns to the operation or raises.
CloseReturns ==
  /\ pc = "close"
  /\ pc' \in {"connect", "idle", "failed"}

\* Every socket call of control() returns or raises (the timeout of line 146
\* bounds each of them), and the controller's thread is not suspended for ever
\* between them.
FairSpec ==
  /\ Spec
  /\ WF_vars(Connect)
  /\ WF_pc(SendReturns)
  /\ WF_vars(Recv)
  /\ WF_pc(CloseReturns)

(* ---------------- properties ---------------- *)

\* Operations that end with verify().
VerifiedOps == {"verify", "toggle", "turn_on", "turn_off", "all_on", "all_off"}

\* The operation called last has ended (returned or raised).
Ended == pc \in {"idle", "failed"}

\* The number of relays of the board type, as the documentation gives it.
N == IF board_type = CHANNEL_8 THEN 8 ELSE 16

\* Bit i (least significant first) of byte b.
BitOf(b, i) == (b \div (2^i)) % 2 = 1

\* The last control() call of the operation raised (a socket error, or the
\* IndexError of the decoding loop).
ControlRaised ==
  /\ Ended
  /\ \/ result = "OSError"
     \/ result = "IndexError" /\ exchanges > 0

\* C1: when the state the board reports at the re-query differs from the vector
\* the controller held when verify() was entered, the operation ends with a
\* ValueError naming the first differing index and the reported value there;
\* it returns normally only when the two agree.
C1_VerifyDetectsMismatch ==
  (Ended /\ op \in VerifiedOps /\ result \in {"ok", "ValueError"}) =>
    LET k == FirstMismatch(intended, relays)
    IN  IF k = -1
        THEN result = "ok"
        ELSE result = "ValueError" /\ errinfo = <<k, relays[k + 1]>>

\* C2: turn_on(i) and then state(), both returning, with a board that executes
\* the commands and nobody else switching it: the vector has relay i on and
\* every other relay as the board had it before turn_on(i) (which is also how
\* the controller had it, when the controller agreed with the board).
C2_TurnOnThenState ==
  (pc = "idle" /\ op = "state" /\ result = "ok" /\ clean /\ prev.op = "turn_on") =>
    /\ relays[prev.arg + 1] = TRUE
    /\ \A k \in 1..Len(relays) :
         k # prev.arg + 1 =>
           /\ relays[k] = prev.devpre[k]
           /\ (prev.pre = prev.devpre => relays[k] = prev.pre[k])

C2_Witness ==
  /\ pc = "idle" /\ op = "state" /\ result = "ok" /\ clean
  /\ prev.op = "turn_on" /\ prev.arg = 15
  /\ prev.pre[16] = FALSE /\ relays[16] = TRUE
  /\ relays[1] = TRUE /\ relays[2] = FALSE

\* C3: turn_on, turn_off and toggle with an index below 0 or not below the
\* number of relays end with IndexError at once: no connection was opened, no
\* frame was sent, the vector is the one of the call.
C3_InvalidIndexNoIO ==
  (op \in {"turn_on", "turn_off", "toggle"} /\ (arg < 0 \/ arg >= N)) =>
    /\ pc = "idle"
    /\ result = "IndexError"
    /\ exchanges = 0
    /\ sent = <<>>
    /\ sock = FALSE
    /\ relays = pre

C3_Witness ==
  /\ op = "toggle" /\ arg = 16 /\ board_type = CHANNEL_16
  /\ result = "IndexError" /\ pc = "idle"
  /\ \E k \in 1..Len(relays) : relays[k]

\* C4: whenever no control() call is in progress, no connection opened by the
\* controller is still open.
C4_NoConnectionLeftOpen ==
  Ended => open_socks = 0

\* C5: toggle(i) and toggle(i) again, both returning, with a board that
\* executes the commands and nobody else switching it: relay i of the vector
\* is what it was before the first toggle, and every other relay is as the
\* board had it (and as the controller had it, when the two agreed).
C5_ToggleTwice ==
  (pc = "idle" /\ op = "toggle" /\ result = "ok" /\ clean /\ prev.op = "toggle") =>
    /\ prev.arg = arg
    /\ relays[arg + 1] = prev.pre[arg + 1]
    /\ \A k \in 1..Len(relays) :
         k # arg + 1 => relays[k] = prev.devpre[k]
    /\ (prev.pre = prev.devpre => relays = prev.pre /\ dev = prev.devpre)

C5_Witness ==
  /\ pc = "idle" /\ op = "toggle" /\ result = "ok" /\ clean
  /\ prev.op = "toggle" /\ arg = 7
  /\ prev.pre[8] = FALSE /\ prev.post[8] = TRUE /\ relays[8] = FALSE
  /\ relays[1] = TRUE

\* C6: all_on() returning, with a board that executes the commands and nobody
\* else switching it, leaves every relay of the vector (and of the board) on,
\* all_off() leaves every one off, from whatever state; and the second of two
\* such calls in a row leaves vector and board as the first left them.
C6_AllOnAllOff ==
  (pc = "idle" /\ op \in {"all_on", "all_off"} /\ result = "ok" /\ clean) =>
    /\ Len(relays) = N /\ Len(dev) = N
    /\ \A k \in 1..N : relays[k] = (op = "all_on") /\ dev[k] = (op = "all_on")
    /\ (prev.op = op => relays = prev.post /\ dev = prev.devpost)

C6_Witness ==
  /\ pc = "idle" /\ op = "all_on" /\ result = "ok" /\ clean
  /\ prev.op = "all_on"
  /\ \E k \in 1..Len(relays) : ~prev.pre[k]
  /\ \A k \in 1..Len(relays) : relays[k]

\* C7: a control() call of a constructed controller that raises (connect,
\* send, receive or decoding) leaves the vector as it was when the call was
\* entered.
C7_FailedControlLeavesRelays ==
  (ControlRaised /\ pc = "idle") => relays = cpre

\* The operation has ended in or after the decoding of a three-byte response.
ThreeByteResponseParsed ==
  /\ Ended /\ exchanges > 0 /\ Len(resp) = 3
  /\ result \in {"ok", "IndexError"}

\* C8 as stated: a three-byte response [X, B, A] decodes to the characters of
\* reverse(bits(A) + bits(B)), one per relay, and A = 0x01, B = 0x00 gives
\* relay 7 on and every other relay off.
C8_AsStated ==
  ThreeByteResponseParsed =>
    LET A == resp[3]
        B == resp[2]
        s == Reversed(Format08b(A) \o Format08b(B))
    IN  /\ \A i \in 0..(Len(relays) - 1) : relays[i + 1] = (s[i + 1] = "1")
        /\ (A = 1 /\ B = 0) => \A i \in 0..(Len(relays) - 1) : relays[i + 1] = (i = 7)

\* C8 amended: of a three-byte response [X, B, A] only B is decoded: relay i,
\* for i in 0..7, is bit i (least significant first) of B, which is character
\* i of reverse(bits(A) + bits(B)); A is not read.  An 8-relay controller
\* takes these 8 values; a 16-relay controller raises IndexError with relays
\* 8..15 as they were.  A = 0x01, B = 0x00 gives relays 0..7 all off.
C8_ThreeByteDecode ==
  ThreeByteResponseParsed =>
    LET A == resp[3]
        B == resp[2]
        s == Reversed(Format08b(A) \o Format08b(B))
    IN  /\ \A i \in 0..7 : relays[i + 1] = BitOf(B, i) /\ relays[i + 1] = (s[i + 1] = "1")
        /\ \A i \in 8..(Len(relays) - 1) : relays[i + 1] = cpre[i + 1]
        /\ (result = "ok") = (board_type = CHANNEL_8)
        /\ (A = 1 /\ B = 0) => \A i \in 0..7 : relays[i + 1] = FALSE

C8_Witness ==
  /\ pc = "idle" /\ result = "ok" /\ resp = <<255, 1, 128>>
  /\ relays = <<TRUE, FALSE, FALSE, FALSE, FALSE, FALSE, FALSE, FALSE>>

\* The state a response carries for relay i: bit i of the second-to-last byte
\* for i in 0..7, bit i-8 of the third-to-last byte for i in 8..15.
ReportedBit(rsp, i) ==
  IF i < 8 THEN BitOf(rsp[Len(rsp) - 1], i) ELSE BitOf(rsp[Len(rsp) - 2], i - 8)

\* The query frame on the wire, per board type (last entry of each table).
QueryFrame ==
  IF board_type = CHANNEL_8
  THEN <<253, 2, 32, 248, 128, 93>>
  ELSE <<88, 1, 16, 0, 0, 0, 0, 105>>

\* C9: construction makes one exchange, the state query; when it returns the
\* vector is the state decoded from the reply; when the exchange raises, the
\* exception leaves __init__ and there is no controller to call.
C9_Construction ==
  (op = "__init__") =>
    /\ exchanges <= 1
    /\ (pc = "idle") =>
         /\ result = "ok"
         /\ exchanges = 1 /\ sent = <<QueryFrame>>
         /\ Len(relays) = N
         /\ \A i \in 0..(N - 1) : relays[i + 1] = ReportedBit(resp, i)
    /\ (result \notin {"running", "ok"}) =>
         /\ pc = "failed"
         /\ ~ENABLED Next

C9_Witness ==
  /\ op = "__init__" /\ pc = "idle" /\ result = "ok"
  /\ board_type = CHANNEL_16
  /\ relays[1] /\ ~relays[2] /\ relays[16]

\* The failing branch of C9 happens too.
C9_FailedWitness ==
  /\ op = "__init__" /\ pc = "failed" /\ result = "OSError"

\* C10: check_index(i) raises IndexError exactly when i < 0 or i >= N, N being
\* 8 or 16 by board type, and changes nothing of the controller.
C10_CheckIndex ==
  (op = "check_index") =>
    /\ pc = "idle"
    /\ result \in {"ok", "IndexError"}
    /\ (result = "IndexError") = (arg < 0 \/ arg >= N)
    /\ relays = pre
    /\ exchanges = 0 /\ sent = <<>> /\ sock = FALSE

C10_Witness ==
  /\ op = "check_index" /\ arg = 16 /\ board_type = CHANNEL_16
  /\ result = "IndexError"

\* C11: when verify() (alone or at the end of a mutating operation) returns
\* normally, the vector is the one the controller held when verify() was
\* entered; the queried vector is not adopted.
C11_VerifyKeepsHeldVector ==
  (pc = "idle" /\ result = "ok" /\ op \in VerifiedOps) => relays = intended

\* The last control() call of the operation got to its decoding loop, which
\* returned or raised; resp is the response it decoded.
Decoded ==
  /\ Ended /\ exchanges > 0
  /\ result \in {"ok", "IndexError"}

\* C12 as stated: every final response of at least 3 bytes decodes to
\* reverse(bits(third-to-last) + bits(second-to-last)): relay i is bit i of the
\* second-to-last byte for i in 0..7, relay 8+i is bit i of the third-to-last.
C12_AsStated ==
  (Decoded /\ Len(resp) >= 3) =>
    /\ result = "ok"
    /\ \A i \in 0..(Len(relays) - 1) : relays[i + 1] = ReportedBit(resp, i)

\* C12 amended: a final response of at least 5 bytes decodes that way.  Of a
\* response of 3 or 4 bytes only the second-to-last byte is decoded: relays
\* 0..7 are its bits, the third-to-last byte is not read, and a 16-relay
\* controller raises IndexError with relays 8..15 as they were.
C12_DecodeByLength ==
  (Decoded /\ Len(resp) >= 3) =>
    IF Len(resp) >= 5
    THEN /\ result = "ok"
         /\ \A i \in 0..(Len(relays) - 1) : relays[i + 1] = ReportedBit(resp, i)
    ELSE /\ \A i \in 0..7 : relays[i + 1] = BitOf(resp[Len(resp) - 1], i)
         /\ \A i \in 8..(Len(relays) - 1) : relays[i + 1] = cpre[i + 1]
         /\ (result = "ok") = (board_type = CHANNEL_8)

C12_Witness ==
  /\ pc = "idle" /\ result = "ok" /\ board_type = CHANNEL_16
  /\ resp = <<0, 0, 128, 1, 0>>
  /\ relays[1] /\ relays[16] /\ ~relays[2] /\ ~relays[9]

\* The short case of C12 happens too: four bytes at a 16-relay controller.
C12_ShortWitness ==
  /\ pc = "idle" /\ result = "IndexError" /\ board_type = CHANNEL_16
  /\ resp = <<0, 255, 0, 93>>
  /\ \E k \in 9..16 : relays[k]

MutatingOps == {"toggle", "turn_on", "turn_off", "all_on", "all_off"}

QueryOps == {"state", "verify"}

\* The number of commands in the batch of a mutating operation.
BatchSize == IF op \in {"all_on", "all_off"} THEN N ELSE 1

\* The control() calls an operation makes when nothing fails.
ExchangesOf(o) == IF o \in MutatingOps THEN 2 ELSE 1

\* The connection each frame of the running operation goes over when nothing
\* fails: the batch over the first, the query over the second.
ExpectedSentOn ==
  IF op \in MutatingOps THEN Repeat(1, BatchSize) \o <<2>> ELSE <<1>>

IsPrefix(s, t) == Len(s) <= Len(t) /\ \A k \in 1..Len(s) : s[k] = t[k]

\* The operation went through check_index (or has none) and reached control().
DidIO == op \in MutatingOps \cup QueryOps /\ (exchanges > 0 \/ result = "OSError")

C13_CountsWhenReturned ==
  (pc = "idle" /\ result = "ok" /\ op \in MutatingOps \cup QueryOps) =>
    /\ exchanges = ExchangesOf(op)
    /\ sent_on = ExpectedSentOn
    /\ sent[Len(sent)] = QueryFrame
    /\ \A k \in 1..(Len(sent) - 1) : sent[k] # QueryFrame

C13_NoRetry ==
  /\ exchanges <= ExchangesOf(op)
  /\ IsPrefix(sent_on, ExpectedSentOn)
  /\ (Ended /\ result \in {"OSError", "IndexError"} /\ phase = "cmd") =>
        /\ exchanges <= 1
        /\ \A k \in 1..Len(sent) : sent[k] # QueryFrame

\* C13: a mutating operation that returns normally made exactly two control
\* exchanges, the command batch and then one query; state() and verify() made
\* exactly one; nothing is retried: no frame is sent twice, an operation that
\* failed in its batch never sent the query, and an operation that has ended
\* opens no connection and sends nothing more.
C13_Exchanges ==
  /\ [](C13_CountsWhenReturned /\ C13_NoRetry)
  /\ [][Ended => /\ exchanges' \in {0, exchanges}
                 /\ open_socks' = open_socks
                 /\ sent' \in {<<>>, sent}]_vars

C13_Witness ==
  /\ pc = "idle" /\ result = "ok" /\ op = "all_on"
  /\ exchanges = 2 /\ Len(sent) = N + 1

\* The failure case of C13: the batch of turn_off failed at its recv.
C13_FailedWitness ==
  /\ pc = "idle" /\ result = "OSError" /\ op = "turn_off" /\ phase = "cmd"
  /\ exchanges = 1 /\ Len(sent) = 1 /\ recvs = 0

\* The frames the operation sent over its connection number e, in order.
SentOver(e) == SelectSeq([k \in 1..Len(sent) |-> <<sent_on[k], sent[k]>>],
                         LAMBDA x : x[1] = e)

\* A response the decoding loop cannot take every relay from.
TooShort(rsp) == Len(rsp) < 3 \/ (N = 16 /\ Len(rsp) < 5)

\* control() is between its connect and its return.
InControl == pc \in ControlPositions \ {"connect"}

\* Commands of the running control() call that were sent.
SentOfBatch == IF pc = "send" THEN ci - 1 ELSE IF pc = "recv" THEN ci ELSE Len(cmdList)

C14_OneConnectionInOrder ==
  InControl =>
    /\ sock /\ open_socks >= 1
    /\ Len(SentOver(exchanges)) = SentOfBatch
    /\ \A k \in 1..SentOfBatch : SentOver(exchanges)[k][2] = a2b_hex(cmdList[k])

C14_SendThenReceive ==
  /\ pc = "recv" => Len(sent) = recvs + 1
  /\ pc \in {"send", "close"} => Len(sent) = recvs

\* control() leaves its decoding (it returns to the operation or raises).
DecodingDone == pc = "close" /\ pc' # "close"

\* The relays as the response rsp reports them.
Reported(rsp) == [k \in 1..N |-> ReportedBit(rsp, k - 1)]

C14_LastResponseOnly ==
  /\ pc = "close" => resp = last_resp
  /\ (Ended /\ result = "IndexError" /\ exchanges > 0) =>
        /\ TooShort(last_resp)
        /\ Len(last_resp) >= 3 =>
             \A i \in 0..7 : relays[i + 1] = BitOf(last_resp[Len(last_resp) - 1], i)

\* The batch of a mutating operation has returned: the vector is the one the
\* last response reports, with the local assignment made on it.
C14_BatchDecoded ==
  (DecodingDone /\ pc' = "connect") =>
     /\ ~TooShort(last_resp)
     /\ relays' = LocalAssign(mut, Reported(last_resp), arg)

\* C14: within one control() call every command goes over the one connection
\* of that call, in list order; every send is followed by a receive before the
\* next send; what is decoded depends on the response to the last command
\* alone.
C14_Batch ==
  /\ [](C14_OneConnectionInOrder /\ C14_SendThenReceive /\ C14_LastResponseOnly)
  /\ [][C14_BatchDecoded]_vars

\* all_on returned although the response to the first command of its batch
\* could not have been decoded.
C14_Witness ==
  /\ pc = "idle" /\ result = "ok" /\ op = "all_on"
  /\ dropped_short
  /\ Len(SentOver(1)) = N

\* The frame on the wire that switches relay i (0-based) on or off: the 8-relay
\* board takes FD 02 20 <relay> <01|00> 5D, the 16-relay board takes
\* 58 01 <12|11> 00 00 00 <relay> <sum of the bytes before, mod 256>.
OnFrame(i) ==
  IF board_type = CHANNEL_8
  THEN <<253, 2, 32, i + 1, 1, 93>>
  ELSE <<88, 1, 18, 0, 0, 0, i + 1, (88 + 1 + 18 + i + 1) % 256>>

OffFrame(i) ==
  IF board_type = CHANNEL_8
  THEN <<253, 2, 32, i + 1, 0, 93>>
  ELSE <<88, 1, 17, 0, 0, 0, i + 1, (88 + 1 + 17 + i + 1) % 256>>

\* The frames the operation called last sends when nothing fails.
ExpectedFrames ==
  LET valid == arg >= 0 /\ arg < N
      batch ==
        CASE op = "turn_on"  -> IF valid THEN <<OnFrame(arg)>> ELSE <<>>
          [] op = "turn_off" -> IF valid THEN <<OffFrame(arg)>> ELSE <<>>
          [] op = "toggle"   -> IF ~valid THEN <<>>
                                ELSE IF pre[arg + 1] THEN <<OffFrame(arg)>>
                                ELSE <<OnFrame(arg)>>
          [] op = "all_on"   -> [k \in 1..N |-> OnFrame(k - 1)]
          [] op = "all_off"  -> [k \in 1..N |-> OffFrame(k - 1)]
          [] OTHER           -> <<>>
  IN  IF op \in {"__init__", "state", "verify"} THEN <<QueryFrame>>
      ELSE IF batch = <<>> THEN <<>>
      ELSE batch \o <<QueryFrame>>

\* C15: turn_on(i) sends commands[2i], turn_off(i) commands[2i+1]; all_on and
\* all_off send the on (off) commands of relays 0..N-1 in that order as one
\* batch; state() sends the last entry of the table; toggle(i) sends the off
\* command exactly when relays[i] was true at the call.  Entry 2i of the table
\* is the on frame of relay i, entry 2i+1 its off frame, the last entry the
\* query frame (the table is fixed by the board type; it is compared once per
\* board type, while the controller is constructed).
C15_CommandSelection ==
  /\ op = "__init__" =>
        /\ \A i \in 0..(N - 1) :
              /\ a2b_hex(commands[2 * i + 1]) = OnFrame(i)
              /\ a2b_hex(commands[2 * i + 2]) = OffFrame(i)
        /\ a2b_hex(commands[Len(commands)]) = QueryFrame
  /\ IsPrefix(sent, ExpectedFrames)
  /\ (pc = "idle" /\ result = "ok") => sent = ExpectedFrames
  /\ (pc = "idle" /\ result = "ok" /\ op \in {"all_on", "all_off"}) =>
        SentOver(1) = [k \in 1..N |-> <<1, sent[k]>>]

C15_Witness ==
  /\ pc = "idle" /\ result = "ok" /\ op = "toggle"
  /\ pre[arg + 1]
  /\ sent = <<OffFrame(arg), QueryFrame>>

\* The batch case of C15.
C15_BatchWitness ==
  /\ pc = "idle" /\ result = "ok" /\ op = "all_off"
  /\ Len(sent) = N + 1 /\ sent[1] = OffFrame(0) /\ sent[N] = OffFrame(N - 1)

C16_EmptyWitness ==
  /\ Ended /\ result = "IndexError" /\ exchanges > 0
  /\ Len(resp) < 3

PublicOps == {"__init__", "state", "verify", "toggle", "turn_on", "turn_off",
              "all_on", "all_off"}

\* C17: when a public operation returns normally, its last exchange was the
\* state query and self._relays equals, at every index, the state decoded from
\* the response to it: what the operation assigned locally (lines 106, 119,
\* 129, 139) is overwritten by what the board reported.
C17_ReportedStateWins ==
  (pc = "idle" /\ result = "ok" /\ op \in PublicOps) =>
    /\ sent[Len(sent)] = QueryFrame
    /\ sent_on[Len(sent)] = exchanges
    /\ recvs = Len(sent)
    /\ ~TooShort(last_resp)
    /\ \A i \in 0..(N - 1) : relays[i + 1] = ReportedBit(last_resp, i)

\* turn_on(i) returned with relay i off: the local assignment was overwritten.
C17_Witness ==
  /\ pc = "idle" /\ result = "ok" /\ op = "turn_on"
  /\ intended[arg + 1] /\ ~relays[arg + 1]
  /\ ~ReportedBit(last_resp, arg)

\* C18: every public operation ends (returns or raises) once each socket call
\* returns or times out; its for loop makes one send and one recv per command
\* of the batch and no more.
C18_Terminates ==
  /\ [](InControl => ci <= Len(cmdList) + 1)
  /\ [](recvs <= Len(sent) /\ Len(sent) <= Len(ExpectedFrames))
  /\ (~Ended) ~> Ended

\* The longest operation has ended: 16 commands and the query.
C18_Witness ==
  /\ pc = "idle" /\ result = "ok" /\ op = "all_off" /\ board_type = CHANNEL_16
  /\ recvs = 17 /\ exchanges = 2

====
